---------------------------- MODULE Spec2Model ----------------------------
(***************************************************************************)
(* A model of nekohash: three hash constructions behind the NekoHash trait *)
(* (src/src/kawaii.rs, magical.rs, tsundere.rs, lib.rs) and the utility    *)
(* layer (src/src/utils.rs).                                               *)
(*                                                                         *)
(* Bytes are the integers 0..255 and every byte operation keeps its width. *)
(* Values wider than 31 bits (u32 words, u64 seeds) are little-endian byte *)
(* sequences, so that no arithmetic leaves the range of the integers.      *)
(* A Rust Vec<u8> / &[u8] / &str is a sequence of bytes (a &str being its  *)
(* UTF-8 encoding); Rust's index i is index i+1 here.                      *)
(***************************************************************************)
EXTENDS Integers, Sequences, FiniteSets, TLC

VARIABLES
    hasher,   \* the hash instance under use (a `dyn NekoHash` value)
    resets,   \* how many times reset() was called on it
    hres,     \* the last trait call on the instance and what it returned
    enc,      \* the last encrypt_data / hash_encrypted call
    enc2,     \* a second encrypt_data call with the same key and data
    dec,      \* the last decrypt_data call
    call,     \* the last call of a pure utility function (hex codec)
    cmp       \* the activation record of constant_time_compare

vars == <<hasher, resets, hres, enc, enc2, dec, call, cmp>>

(***************************************************************************)
(* Bounds of the model.                                                    *)
(***************************************************************************)
MaxData == 2      \* longest input buffer handed to hash / encrypt_data
MaxSize == 3      \* largest KawaiiHash size drawn besides the default one
MaxRounds == 2    \* largest TsundereHash round count drawn besides the default
MaxResets == 2    \* reset() calls counted on one instance
MaxHexBytes == 2  \* longest buffer handed to to_hex
MaxStrChars == 3  \* longest string (in characters) handed to from_hex
MaxCmpLen == 2    \* longest buffer handed to constant_time_compare

\* The byte values inputs are built from.
ByteSample == {0, 90, 255}

RECURSIVE SeqsUpTo(_, _)
\* All sequences over S of length at most n.
SeqsUpTo(S, n) ==
    IF n = 0 THEN {<<>>}
    ELSE LET shorter == SeqsUpTo(S, n - 1)
         IN  shorter \cup {Append(s, x) : s \in {t \in shorter : Len(t) = n - 1}, x \in S}

Zeros(n) == [i \in 1..n |-> 0]
Repeat(b, n) == [i \in 1..n |-> b]

(***************************************************************************)
(* u8 arithmetic.                                                          *)
(***************************************************************************)
BitOf(x, k) == (x \div (2 ^ k)) % 2

XorNibble == [a \in 0..15, b \in 0..15 |->
                LET bit(k) == (BitOf(a, k) + BitOf(b, k)) % 2
                IN  bit(0) + 2 * bit(1) + 4 * bit(2) + 8 * bit(3)]

OrNibble == [a \in 0..15, b \in 0..15 |->
                LET bit(k) == IF BitOf(a, k) + BitOf(b, k) > 0 THEN 1 ELSE 0
                IN  bit(0) + 2 * bit(1) + 4 * bit(2) + 8 * bit(3)]

\* x ^ y on u8
Xor8(x, y) == 16 * XorNibble[x \div 16, y \div 16] + XorNibble[x % 16, y % 16]
\* x | y on u8
Or8(x, y) == 16 * OrNibble[x \div 16, y \div 16] + OrNibble[x % 16, y % 16]
\* u8::wrapping_add
WrappingAdd8(x, y) == (x + y) % 256
\* u8::wrapping_mul
WrappingMul8(x, y) == (x * y) % 256
\* u8::rotate_left(n), 0 < n < 8
RotateLeft8(x, n) == ((x * (2 ^ n)) % 256) + (x \div (2 ^ (8 - n)))

XorSeq(a, b) == [i \in 1..Len(a) |-> Xor8(a[i], b[i])]

(***************************************************************************)
(* u32 arithmetic on 4-byte little-endian words (u32::to_le_bytes).        *)
(***************************************************************************)
\* u32::wrapping_mul: schoolbook product of the byte limbs, columns 0..3.
WrappingMul32(a, b) ==
    LET c0 == a[1] * b[1]
        c1 == a[1] * b[2] + a[2] * b[1] + (c0 \div 256)
        c2 == a[1] * b[3] + a[2] * b[2] + a[3] * b[1] + (c1 \div 256)
        c3 == a[1] * b[4] + a[2] * b[3] + a[3] * b[2] + a[4] * b[1] + (c2 \div 256)
    IN  <<c0 % 256, c1 % 256, c2 % 256, c3 % 256>>

\* u32::rotate_left(7): a left rotation by one byte, then right by one bit.
RotateLeft32By7(a) ==
    [k \in 1..4 |->
        LET prev == a[IF k = 1 THEN 4 ELSE k - 1]
        IN  (prev \div 2) + 128 * (a[k] % 2)]

Xor32(a, b) == XorSeq(a, b)

(***************************************************************************)
(* rand::rngs::StdRng.  The generator is a library of its own; what the    *)
(* repository relies on is that it is a deterministic function of its seed *)
(* and of the number of values drawn so far.  A generator is the pair of   *)
(* its seed (u64, 8 little-endian bytes) and its position; gen::<u8>()     *)
(* returns a byte fixed by both and advances the position by one.  A loop  *)
(* that draws once per iteration is given the generator it starts with,    *)
(* and its (i)th iteration reads the (i)th value after that position.      *)
(***************************************************************************)
\* u64 / u32-as-u64 seeds as 8 little-endian bytes
U64FromU32(w) == w \o <<0, 0, 0, 0>>

StdRng_seed_from_u64(seed) == [seed |-> seed, pos |-> 0]

SeedWeight(seed) ==
    (seed[1] + 3 * seed[2] + 5 * seed[3] + 7 * seed[4]
       + 11 * seed[5] + 13 * seed[6] + 17 * seed[7] + 19 * seed[8]) % 251

\* the value of rng.gen::<u8>()
StdRng_gen_u8(rng) ==
    ((SeedWeight(rng.seed) + 1) * (7 * rng.pos + 13) + rng.pos * rng.pos + 101) % 256

\* the generator after n calls of gen()
StdRng_advance(rng, n) == [seed |-> rng.seed, pos |-> rng.pos + n]

\* the value of the (k)th next gen::<u8>(), k = 1 for the next one
StdRng_nth_u8(rng, k) == StdRng_gen_u8(StdRng_advance(rng, k - 1))

(***************************************************************************)
(* Results.  A call returns normally with a buffer, returns an Err of one  *)
(* NekoError kind, or panics.                                              *)
(***************************************************************************)
Ok(v) == [tag |-> "Ok", val |-> v]
Err(kind) == [tag |-> kind, val |-> <<>>]
Panic == [tag |-> "Panic", val |-> <<>>]
NoCall == [op |-> "none", out |-> Ok(<<>>)]

(***************************************************************************)
(* KawaiiHash (src/src/kawaii.rs).                                         *)
(***************************************************************************)
\* 0xDEADBEEF as a u64
KawaiiDefaultSeed == <<239, 190, 173, 222, 0, 0, 0, 0>>
\* 12345 as a u64 (the seed of test_kawaii_hash_deterministic)
KawaiiTestSeed == <<57, 48, 0, 0, 0, 0, 0, 0>>
KawaiiDefaultSize == 32

KawaiiHash_with_size_and_seed(size, seed) ==
    [kind |-> "Kawaii", size |-> size, seed |-> seed,
     rng |-> StdRng_seed_from_u64(seed)]

KawaiiHash_with_size(size) ==
    [kind |-> "Kawaii", size |-> size, seed |-> KawaiiDefaultSeed,
     rng |-> StdRng_seed_from_u64(KawaiiDefaultSeed)]

KawaiiHash_with_seed(seed) ==
    [kind |-> "Kawaii", size |-> KawaiiDefaultSize, seed |-> seed,
     rng |-> StdRng_seed_from_u64(seed)]

KawaiiHash_new == KawaiiHash_with_size(KawaiiDefaultSize)

\* An input step that rotates the byte it XORs into.
AbsorbByte_Rotating(result, data, i, m) ==
    [result EXCEPT ![((i - 1) % m) + 1] = Xor8(RotateLeft8(@, 1), data[i])]

\* result[i % m] ^= byte, for the (i)th byte of data (1-based); m > 0
AbsorbByte(result, data, i, m) ==
    [result EXCEPT ![((i - 1) % m) + 1] = Xor8(@, data[i])]

RECURSIVE AbsorbXor(_, _, _, _, _)
\* for (i, &byte) in data.iter().enumerate() { result[i % m] ^= byte; }: the
\* iterations lo..hi (1-based) in ascending order, the lower half of the
\* range and then the upper half
AbsorbXor(result, data, m, lo, hi) ==
    IF lo > hi \/ Len(result) = 0 THEN result
    ELSE IF lo = hi THEN AbsorbByte(result, data, lo, m)
    ELSE LET mid == (lo + hi) \div 2
         IN  AbsorbXor(AbsorbXor(result, data, m, lo, mid), data, m, mid + 1, hi)

\* one iteration of "Apply kawaii transformations" at index i (1-based); it
\* makes the (i)th draw from rng
KawaiiTransformStep(result, rng, i) ==
    LET random == StdRng_nth_u8(rng, i)
        mixed  == RotateLeft8(WrappingAdd8(result[i], random), 3)
        linked == IF i > 1 THEN Xor8(mixed, result[i - 1]) ELSE mixed
    IN  [result EXCEPT ![i] = linked]

RECURSIVE KawaiiTransform(_, _, _, _)
\* "Apply kawaii transformations", for i in 0..size: the iterations lo..hi (1-based) in
\* ascending order, the lower half of the range and then the upper half
KawaiiTransform(result, rng, lo, hi) ==
    IF lo > hi \/ Len(result) = 0 THEN result
    ELSE IF lo = hi THEN KawaiiTransformStep(result, rng, lo)
    ELSE LET mid == (lo + hi) \div 2
         IN  KawaiiTransform(KawaiiTransform(result, rng, lo, mid), rng, mid + 1, hi)

\* one iteration of "Final mixing" at index i (1-based); it makes the
\* (size - i + 1)th draw from rng
KawaiiFinalMixStep(result, rng, i) ==
    LET random == StdRng_nth_u8(rng, Len(result) - i + 1)
        mixed  == Xor8(WrappingMul8(result[i], 181), random)
        linked == IF i < Len(result) THEN Xor8(mixed, result[i + 1]) ELSE mixed
    IN  [result EXCEPT ![i] = linked]

RECURSIVE KawaiiFinalMix(_, _, _, _)
\* "Final mixing", for i in (0..size).rev(): the iterations hi..lo (1-based) in
\* descending order, the upper half of the range and then the lower half
KawaiiFinalMix(result, rng, lo, hi) ==
    IF lo > hi \/ Len(result) = 0 THEN result
    ELSE IF lo = hi THEN KawaiiFinalMixStep(result, rng, lo)
    ELSE LET mid == (lo + hi) \div 2
         IN  KawaiiFinalMix(KawaiiFinalMix(result, rng, mid + 1, hi), rng, lo, mid)

\* KawaiiHash::hash(&self, data).  `i % self.size` panics when size is 0
\* and the loop body runs, that is when data is not empty.
KawaiiHash_hash(self, data) ==
    IF self.size = 0 /\ Len(data) > 0 THEN Panic
    ELSE LET rng0   == StdRng_seed_from_u64(self.seed)
             filled == IF self.size = 0 THEN <<>>
                       ELSE AbsorbXor(Zeros(self.size), data, self.size, 1, Len(data))
             t      == KawaiiTransform(filled, rng0, 1, self.size)
             rng1   == StdRng_advance(rng0, self.size)
         IN  Ok(KawaiiFinalMix(t, rng1, 1, self.size))

KawaiiHash_output_size(self) == self.size

\* KawaiiHash::reset(&mut self): the instance afterwards
KawaiiHash_reset(self) == [self EXCEPT !.rng = StdRng_seed_from_u64(self.seed)]

(***************************************************************************)
(* MagicalHash (src/src/magical.rs).                                       *)
(***************************************************************************)
\* MAGIC_CONSTANT = 0x19_95_08_16 as u32::to_le_bytes
MAGIC_CONSTANT == <<22, 8, 149, 25>>
\* 0xCAFEBABE (test_magical_hash_custom_magic)
MagicCafeBabe == <<190, 186, 254, 202>>
MagicalOutputSize == 16

MagicalHash_with_magic(magic) ==
    [kind |-> "Magical", magic |-> magic,
     rng |-> StdRng_seed_from_u64(U64FromU32(magic))]

MagicalHash_new == MagicalHash_with_magic(MAGIC_CONSTANT)

\* "Initialize result with magic number": four copies of magic.to_le_bytes()
MagicalInit(magic) == magic \o magic \o magic \o magic

\* one iteration of "Mix in input data" for the (i)th byte (1-based); it
\* makes the (i)th draw from rng
MagicalAbsorbStep(result, rng, data, i) ==
    LET idx     == ((i - 1) % 16) + 1
        rotated == RotateLeft8(Xor8(result[idx], data[i]), 3)
        random  == StdRng_nth_u8(rng, i)
    IN  [result EXCEPT ![idx] = WrappingAdd8(rotated, random)]

RECURSIVE MagicalAbsorb(_, _, _, _, _)
\* "Mix in input data": the iterations lo..hi (1-based) in ascending
\* order, the lower half of the range and then the upper half
MagicalAbsorb(result, rng, data, lo, hi) ==
    IF lo > hi \/ Len(result) = 0 THEN result
    ELSE IF lo = hi THEN MagicalAbsorbStep(result, rng, data, lo)
    ELSE LET mid == (lo + hi) \div 2
         IN  MagicalAbsorb(MagicalAbsorb(result, rng, data, lo, mid), rng, data, mid + 1, hi)

\* "Apply magical transformations" on one little-endian word
MagicalWord(value, magic) ==
    Xor32(RotateLeft32By7(WrappingMul32(value, magic)), magic)

\* the four words of the buffer transformed in place
MagicalTransform(result, magic) ==
    LET word(i) == MagicalWord(SubSeq(result, 4 * i + 1, 4 * i + 4), magic)
    IN  word(0) \o word(1) \o word(2) \o word(3)

\* one iteration of "Final mixing" at index i (1-based); it makes the
\* (i)th draw from rng
MagicalFinalMixStep(result, rng, i) ==
    LET random == StdRng_nth_u8(rng, i)
    IN  [result EXCEPT ![i] = RotateLeft8(WrappingAdd8(@, random), 3)]

RECURSIVE MagicalFinalMix(_, _, _, _)
\* "Final mixing", for i in 0..16: the iterations lo..hi (1-based) in
\* ascending order, the lower half of the range and then the upper half
MagicalFinalMix(result, rng, lo, hi) ==
    IF lo > hi \/ Len(result) = 0 THEN result
    ELSE IF lo = hi THEN MagicalFinalMixStep(result, rng, lo)
    ELSE LET mid == (lo + hi) \div 2
         IN  MagicalFinalMix(MagicalFinalMix(result, rng, lo, mid), rng, mid + 1, hi)

\* MagicalHash::hash(&self, data)
MagicalHash_hash(self, data) ==
    LET rng0 == StdRng_seed_from_u64(U64FromU32(self.magic))
        a    == MagicalAbsorb(MagicalInit(self.magic), rng0, data, 1, Len(data))
        rng1 == StdRng_advance(rng0, Len(data))
        t    == MagicalTransform(a, self.magic)
    IN  Ok(MagicalFinalMix(t, rng1, 1, 16))

MagicalHash_output_size(self) == MagicalOutputSize

\* MagicalHash::reset(&mut self): the instance afterwards
MagicalHash_reset(self) ==
    [self EXCEPT !.rng = StdRng_seed_from_u64(U64FromU32(self.magic))]

(***************************************************************************)
(* TsundereHash (src/src/tsundere.rs).                                     *)
(***************************************************************************)
\* 0x544e554e44455245 as a u64
TsundereSeed == <<69, 82, 69, 68, 78, 85, 78, 84>>
TsundereDefaultRounds == 8
TsundereOutputSize == 32

TsundereHash_with_rounds(rounds) ==
    [kind |-> "Tsundere", rounds |-> rounds, state |-> Zeros(32),
     rng |-> StdRng_seed_from_u64(TsundereSeed)]

TsundereHash_new == TsundereHash_with_rounds(TsundereDefaultRounds)

\* one iteration of "First pass - mix with random values" at index i
\* (1-based); it makes the (i)th draw from rng
TsundereScrambleStep(result, rng, i) ==
    LET random == StdRng_nth_u8(rng, i)
    IN  [result EXCEPT ![i] = RotateLeft8(WrappingAdd8(@, random), 3)]

RECURSIVE TsundereScramble(_, _, _, _)
\* "First pass", for i in 0..32: the iterations lo..hi (1-based) in
\* ascending order, the lower half of the range and then the upper half
TsundereScramble(result, rng, lo, hi) ==
    IF lo > hi \/ Len(result) = 0 THEN result
    ELSE IF lo = hi THEN TsundereScrambleStep(result, rng, lo)
    ELSE LET mid == (lo + hi) \div 2
         IN  TsundereScramble(TsundereScramble(result, rng, lo, mid), rng, mid + 1, hi)

\* one iteration of "Second pass - mix with previous values" at index i
TsundereForwardStep(result, i) == [result EXCEPT ![i] = Xor8(@, result[i - 1])]

RECURSIVE TsundereForward(_, _, _)
\* "Second pass", for i in 1..32: the iterations lo..hi (1-based) in
\* ascending order, the lower half of the range and then the upper half
TsundereForward(result, lo, hi) ==
    IF lo > hi \/ Len(result) = 0 THEN result
    ELSE IF lo = hi THEN TsundereForwardStep(result, lo)
    ELSE LET mid == (lo + hi) \div 2
         IN  TsundereForward(TsundereForward(result, lo, mid), mid + 1, hi)

\* one iteration of "Third pass - mix with future values" at index i
TsundereBackwardStep(result, i) == [result EXCEPT ![i] = Xor8(@, result[i + 1])]

RECURSIVE TsundereBackward(_, _, _)
\* "Third pass", for i in (0..31).rev(): the iterations hi..lo (1-based) in
\* descending order, the upper half of the range and then the lower half
TsundereBackward(result, lo, hi) ==
    IF lo > hi \/ Len(result) = 0 THEN result
    ELSE IF lo = hi THEN TsundereBackwardStep(result, lo)
    ELSE LET mid == (lo + hi) \div 2
         IN  TsundereBackward(TsundereBackward(result, mid + 1, hi), lo, mid)

\* one iteration of "Fourth pass - apply tsundere magic" at index i
\* (1-based); it makes the (i)th draw from rng
TsundereAvalancheStep(result, rng, i) ==
    LET random == StdRng_nth_u8(rng, i)
    IN  [result EXCEPT ![i] = Xor8(WrappingMul8(@, 181), random)]

RECURSIVE TsundereAvalanche(_, _, _, _)
\* "Fourth pass", for i in 0..32: the iterations lo..hi (1-based) in
\* ascending order, the lower half of the range and then the upper half
TsundereAvalanche(result, rng, lo, hi) ==
    IF lo > hi \/ Len(result) = 0 THEN result
    ELSE IF lo = hi THEN TsundereAvalancheStep(result, rng, lo)
    ELSE LET mid == (lo + hi) \div 2
         IN  TsundereAvalanche(TsundereAvalanche(result, rng, lo, mid), rng, mid + 1, hi)

\* one round: the four passes; the first and the fourth draw 32 bytes each
TsundereRound(result, rng) ==
    LET s == TsundereScramble(result, rng, 1, 32)
        d == TsundereBackward(TsundereForward(s, 2, 32), 1, 31)
    IN  TsundereAvalanche(d, StdRng_advance(rng, 32), 1, 32)

RECURSIVE TsundereRounds(_, _, _)
\* for _ in 0..self.rounds, n rounds left
TsundereRounds(result, rng, n) ==
    IF n = 0 \/ Len(result) = 0 THEN result
    ELSE TsundereRounds(TsundereRound(result, rng), StdRng_advance(rng, 64), n - 1)

\* TsundereHash::hash(&self, data): works on clones of self.state and self.rng
TsundereHash_hash(self, data) ==
    LET filled == AbsorbXor(self.state, data, 32, 1, Len(data))
    IN  Ok(TsundereRounds(filled, self.rng, self.rounds))

TsundereHash_output_size(self) == TsundereOutputSize

\* A reset() that re-seeds the generator from the wrong constant.
TsundereHash_reset_OtherSeed(self) ==
    [self EXCEPT !.state = Zeros(32), !.rng = StdRng_seed_from_u64(KawaiiDefaultSeed)]

\* TsundereHash::reset(&mut self): the instance afterwards
TsundereHash_reset(self) ==
    [self EXCEPT !.state = Zeros(32), !.rng = StdRng_seed_from_u64(TsundereSeed)]

(***************************************************************************)
(* The NekoHash trait (src/src/lib.rs): dispatch on the construction.      *)
(***************************************************************************)
NekoHash_hash(self, data) ==
    CASE self.kind = "Kawaii"   -> KawaiiHash_hash(self, data)
      [] self.kind = "Magical"  -> MagicalHash_hash(self, data)
      [] self.kind = "Tsundere" -> TsundereHash_hash(self, data)

NekoHash_output_size(self) ==
    CASE self.kind = "Kawaii"   -> KawaiiHash_output_size(self)
      [] self.kind = "Magical"  -> MagicalHash_output_size(self)
      [] self.kind = "Tsundere" -> TsundereHash_output_size(self)

NekoHash_reset(self) ==
    CASE self.kind = "Kawaii"   -> KawaiiHash_reset(self)
      [] self.kind = "Magical"  -> MagicalHash_reset(self)
      [] self.kind = "Tsundere" -> TsundereHash_reset(self)

\* The instance a constructor returns for the configuration of `self`.
Fresh(self) ==
    CASE self.kind = "Kawaii"   -> KawaiiHash_with_size_and_seed(self.size, self.seed)
      [] self.kind = "Magical"  -> MagicalHash_with_magic(self.magic)
      [] self.kind = "Tsundere" -> TsundereHash_with_rounds(self.rounds)

(***************************************************************************)
(* Inputs.                                                                 *)
(***************************************************************************)
\* b"Hello, World!", the input of the repository's tests
HelloWorld == <<72, 101, 108, 108, 111, 44, 32, 87, 111, 114, 108, 100, 33>>

\* an input longer than the 32-byte state of TsundereHash
LongInput == [k \in 1..34 |-> (37 * k) % 256]

HashInputs == SeqsUpTo(ByteSample, MaxData) \cup {HelloWorld, LongInput}

\* Every way the constructors are called, sizes and rounds within the bounds.
KawaiiHashers ==
    {KawaiiHash_new, KawaiiHash_with_seed(KawaiiTestSeed)}
      \cup {KawaiiHash_with_size(s) : s \in 0..MaxSize}
      \cup {KawaiiHash_with_size_and_seed(s, KawaiiTestSeed) : s \in 0..MaxSize}

MagicalHashers ==
    {MagicalHash_new, MagicalHash_with_magic(MagicCafeBabe),
     MagicalHash_with_magic(<<0, 0, 0, 0>>)}

TsundereHashers ==
    {TsundereHash_new} \cup {TsundereHash_with_rounds(r) : r \in 0..MaxRounds}

Hashers == KawaiiHashers \cup MagicalHashers \cup TsundereHashers

NoHasher == [kind |-> "none"]
CmpIdle == [pc |-> "idle"]

\* A panic unwinds the caller: nothing is called after it.
Running == hres.out.tag # "Panic"

(***************************************************************************)
(* The hash constructions as a state machine: an instance is constructed,  *)
(* then hash() and reset() are called on it in any order.                  *)
(***************************************************************************)
InitHash ==
    /\ hasher \in Hashers
    /\ resets = 0
    /\ hres = NoCall
    /\ enc = NoCall /\ enc2 = NoCall /\ dec = NoCall
    /\ call = NoCall
    /\ cmp = CmpIdle

HashCalled(data, out) == [op |-> "hash", data |-> data, out |-> out]
ResetCalled == [op |-> "reset", data |-> <<>>, out |-> Ok(<<>>)]

KawaiiHashCall ==
    /\ hasher.kind = "Kawaii" /\ Running
    /\ \E data \in HashInputs : hres' = HashCalled(data, KawaiiHash_hash(hasher, data))
    /\ UNCHANGED <<hasher, resets, enc, enc2, dec, call, cmp>>

MagicalHashCall ==
    /\ hasher.kind = "Magical" /\ Running
    /\ \E data \in HashInputs : hres' = HashCalled(data, MagicalHash_hash(hasher, data))
    /\ UNCHANGED <<hasher, resets, enc, enc2, dec, call, cmp>>

TsundereHashCall ==
    /\ hasher.kind = "Tsundere" /\ Running
    /\ \E data \in HashInputs : hres' = HashCalled(data, TsundereHash_hash(hasher, data))
    /\ UNCHANGED <<hasher, resets, enc, enc2, dec, call, cmp>>

KawaiiResetCall ==
    /\ hasher.kind = "Kawaii" /\ Running /\ resets < MaxResets
    /\ hasher' = KawaiiHash_reset(hasher)
    /\ resets' = resets + 1
    /\ hres' = ResetCalled
    /\ UNCHANGED <<enc, enc2, dec, call, cmp>>

MagicalResetCall ==
    /\ hasher.kind = "Magical" /\ Running /\ resets < MaxResets
    /\ hasher' = MagicalHash_reset(hasher)
    /\ resets' = resets + 1
    /\ hres' = ResetCalled
    /\ UNCHANGED <<enc, enc2, dec, call, cmp>>

TsundereResetCall ==
    /\ hasher.kind = "Tsundere" /\ Running /\ resets < MaxResets
    /\ hasher' = TsundereHash_reset(hasher)
    /\ resets' = resets + 1
    /\ hres' = ResetCalled
    /\ UNCHANGED <<enc, enc2, dec, call, cmp>>

NextHash ==
    \/ KawaiiHashCall
    \/ MagicalHashCall
    \/ TsundereHashCall
    \/ KawaiiResetCall
    \/ MagicalResetCall
    \/ TsundereResetCall

SpecHash == InitHash /\ [][NextHash]_vars

(***************************************************************************)
(* Claims about the hash constructions.                                    *)
(***************************************************************************)
\* C1: for each construction, any configuration and any input buffer,
\* hash(data) completes without failing and returns output_size() bytes.
C1_HashTotalAndSized ==
    hres.op = "hash" =>
        /\ hres.out.tag = "Ok"
        /\ Len(hres.out.val) = NekoHash_output_size(hasher)

\* C2: after any sequence of hash() and reset() calls the instance holds
\* exactly the state its constructor set, and hash(data) returns what a
\* freshly constructed instance of the same configuration returns.
C2_SameAsFresh ==
    /\ hasher = Fresh(hasher)
    /\ hres.op = "hash" => hres.out = NekoHash_hash(Fresh(hasher), hres.data)

\* C2 witness: a TsundereHash hashed a non-empty input after being reset.
C2_Witness ==
    /\ hasher.kind = "Tsundere" /\ hasher.rounds > 0
    /\ resets > 0
    /\ hres.op = "hash" /\ hres.out.tag = "Ok" /\ Len(hres.data) > 0

(***************************************************************************)
(* base64::engine::general_purpose::STANDARD: the standard alphabet,       *)
(* padded output, and a decoder that accepts only canonical input (every   *)
(* symbol in the alphabet, a length that is a multiple of four, padding    *)
(* only at the end of the last quantum, unused trailing bits zero).        *)
(* Text is the sequence of its ASCII codes.                                *)
(***************************************************************************)
\* '=' is the padding symbol
IsPad(c) == c = 61

\* the symbol of a 6-bit value
B64Symbol(v) ==
    IF v < 26 THEN 65 + v
    ELSE IF v < 52 THEN 97 + (v - 26)
    ELSE IF v < 62 THEN 48 + (v - 52)
    ELSE IF v = 62 THEN 43 ELSE 47

\* the 6-bit value of a symbol, -1 for a byte outside the alphabet
B64Value(c) ==
    IF c >= 65 /\ c <= 90 THEN c - 65
    ELSE IF c >= 97 /\ c <= 122 THEN c - 97 + 26
    ELSE IF c >= 48 /\ c <= 57 THEN c - 48 + 52
    ELSE IF c = 43 THEN 62
    ELSE IF c = 47 THEN 63 ELSE -1

RECURSIVE BASE64_encode(_)
\* Every three bytes give four symbols; a longer input is encoded as its
\* leading whole groups of three followed by the rest.
BASE64_encode(bytes) ==
    IF Len(bytes) = 0 THEN <<>>
    ELSE IF Len(bytes) = 1 THEN
        <<B64Symbol(bytes[1] \div 4), B64Symbol((bytes[1] % 4) * 16), 61, 61>>
    ELSE IF Len(bytes) = 2 THEN
        <<B64Symbol(bytes[1] \div 4),
          B64Symbol((bytes[1] % 4) * 16 + (bytes[2] \div 16)),
          B64Symbol((bytes[2] % 16) * 4), 61>>
    ELSE IF Len(bytes) = 3 THEN
        <<B64Symbol(bytes[1] \div 4),
          B64Symbol((bytes[1] % 4) * 16 + (bytes[2] \div 16)),
          B64Symbol((bytes[2] % 16) * 4 + (bytes[3] \div 64)),
          B64Symbol(bytes[3] % 64)>>
    ELSE LET groups == (Len(bytes) + 2) \div 3
             cut    == 3 * (groups \div 2)
         IN  BASE64_encode(SubSeq(bytes, 1, cut))
                 \o BASE64_encode(SubSeq(bytes, cut + 1, Len(bytes)))

\* One quantum of four symbols; `last` says it is the final one, the only
\* place padding may stand.
B64Quantum(q, last) ==
    LET v1 == B64Value(q[1])
        v2 == B64Value(q[2])
        v3 == B64Value(q[3])
        v4 == B64Value(q[4])
    IN  IF v1 < 0 \/ v2 < 0 THEN Err("EncodingError")
        ELSE IF last /\ IsPad(q[3]) /\ IsPad(q[4]) THEN
            IF v2 % 16 # 0 THEN Err("EncodingError")
            ELSE Ok(<<v1 * 4 + (v2 \div 16)>>)
        ELSE IF v3 < 0 THEN Err("EncodingError")
        ELSE IF last /\ IsPad(q[4]) THEN
            IF v3 % 4 # 0 THEN Err("EncodingError")
            ELSE Ok(<<v1 * 4 + (v2 \div 16), (v2 % 16) * 16 + (v3 \div 4)>>)
        ELSE IF v4 < 0 THEN Err("EncodingError")
        ELSE Ok(<<v1 * 4 + (v2 \div 16), (v2 % 16) * 16 + (v3 \div 4), (v3 % 4) * 64 + v4>>)

RECURSIVE B64Quanta(_, _)
\* A run of whole quanta; `last` says it ends the text.  A longer run is
\* its leading quanta followed by the rest.
B64Quanta(text, last) ==
    IF Len(text) = 4 THEN B64Quantum(text, last)
    ELSE LET cut  == 4 * ((Len(text) \div 4) \div 2)
             head == B64Quanta(SubSeq(text, 1, cut), FALSE)
             rest == B64Quanta(SubSeq(text, cut + 1, Len(text)), last)
         IN  IF head.tag # "Ok" THEN head
             ELSE IF rest.tag # "Ok" THEN rest ELSE Ok(head.val \o rest.val)

BASE64_decode(text) ==
    IF Len(text) = 0 THEN Ok(<<>>)
    ELSE IF Len(text) % 4 # 0 THEN Err("EncodingError")
    ELSE B64Quanta(text, TRUE)

(***************************************************************************)
(* Ctr64BE<Aes256>.  The cipher is a library of its own; what the          *)
(* repository relies on is that (key, iv) fix a keystream and that         *)
(* apply_keystream XORs the buffer with it.  The keystream byte at each    *)
(* position is a fixed function of the key, the IV and the position.       *)
(***************************************************************************)
RECURSIVE WeightOf(_, _, _)
\* a digest of bytes[lo..hi] in which every position counts
WeightOf(bytes, lo, hi) ==
    IF lo > hi THEN 0
    ELSE IF lo = hi THEN ((2 * lo + 1) * bytes[lo]) % 251
    ELSE LET mid == (lo + hi) \div 2
         IN  (WeightOf(bytes, lo, mid) + WeightOf(bytes, mid + 1, hi)) % 251

KeystreamByte(key, iv, i) ==
    LET k == WeightOf(key, 1, Len(key))
        v == WeightOf(iv, 1, Len(iv))
    IN  (k * (2 * i + 1) + 17 * v + 7 * i * i + 3) % 256

\* A keystream that is added to the buffer instead of XORed into it.
apply_keystream_Add(key, iv, buf) ==
    [i \in 1..Len(buf) |-> WrappingAdd8(buf[i], KeystreamByte(key, iv, i))]

\* Aes256Ctr64BE::new(key, iv).apply_keystream(&mut buf)
apply_keystream(key, iv, buf) ==
    [i \in 1..Len(buf) |-> Xor8(buf[i], KeystreamByte(key, iv, i))]

(***************************************************************************)
(* encrypt_data / decrypt_data (src/src/utils.rs).  What thread_rng()      *)
(* returns is a parameter: the key drawn when none is given, the IV drawn. *)
(***************************************************************************)
Some(k) == [some |-> TRUE, key |-> k]
None == [some |-> FALSE, key |-> <<>>]

\* the `let key = match key { ... }` of encrypt_data
encrypt_key(key, drawnKey) ==
    IF key.some /\ Len(key.key) = 32 THEN Ok(key.key)
    ELSE IF key.some THEN Err("KeyError")
    ELSE Ok(drawnKey)

\* An encrypt_data that leaves the IV out of the envelope.
encrypt_data_NoIv(data, key, drawnKey, drawnIv) ==
    LET k == encrypt_key(key, drawnKey)
    IN  IF k.tag # "Ok" THEN k
        ELSE Ok(BASE64_encode(apply_keystream(k.val, drawnIv, data)))

encrypt_data(data, key, drawnKey, drawnIv) ==
    LET k == encrypt_key(key, drawnKey)
    IN  IF k.tag # "Ok" THEN k
        ELSE LET buf == apply_keystream(k.val, drawnIv, data)
             IN  Ok(BASE64_encode(drawnIv \o buf))

\* A decrypt_data that decodes the envelope before it looks at the key.
decrypt_data_DecodeFirst(encrypted_data, key) ==
    LET encrypted == BASE64_decode(encrypted_data)
    IN  IF encrypted.tag # "Ok" THEN Err("EncodingError")
        ELSE IF Len(key) # 32 THEN Err("KeyError")
        ELSE IF Len(encrypted.val) < 16 THEN Err("CryptoError")
        ELSE Ok(apply_keystream(key, SubSeq(encrypted.val, 1, 16),
                                SubSeq(encrypted.val, 17, Len(encrypted.val))))

\* A decrypt_data that does not split the IV off the ciphertext.
decrypt_data_KeepsIv(encrypted_data, key) ==
    IF Len(key) # 32 THEN Err("KeyError")
    ELSE LET encrypted == BASE64_decode(encrypted_data)
         IN  IF encrypted.tag # "Ok" THEN Err("EncodingError")
             ELSE IF Len(encrypted.val) < 16 THEN Err("CryptoError")
             ELSE Ok(apply_keystream(key, SubSeq(encrypted.val, 1, 16), encrypted.val))

\* A decrypt_data that asks for more than 16 decoded bytes.
decrypt_data_NeedsCiphertext(encrypted_data, key) ==
    IF Len(key) # 32 THEN Err("KeyError")
    ELSE LET encrypted == BASE64_decode(encrypted_data)
         IN  IF encrypted.tag # "Ok" THEN Err("EncodingError")
             ELSE IF Len(encrypted.val) <= 16 THEN Err("CryptoError")
             ELSE Ok(apply_keystream(key, SubSeq(encrypted.val, 1, 16),
                                     SubSeq(encrypted.val, 17, Len(encrypted.val))))

decrypt_data(encrypted_data, key) ==
    IF Len(key) # 32 THEN Err("KeyError")
    ELSE LET encrypted == BASE64_decode(encrypted_data)
         IN  IF encrypted.tag # "Ok" THEN Err("EncodingError")
             ELSE IF Len(encrypted.val) < 16 THEN Err("CryptoError")
             ELSE LET iv         == SubSeq(encrypted.val, 1, 16)
                      ciphertext == SubSeq(encrypted.val, 17, Len(encrypted.val))
                  IN  Ok(apply_keystream(key, iv, ciphertext))

\* NekoHash::hash_encrypted(&self, data, key)
NekoHash_hash_encrypted(self, data, key, drawnKey, drawnIv) ==
    LET hash == NekoHash_hash(self, data)
    IN  IF hash.tag = "Panic" THEN Panic
        ELSE encrypt_data(hash.val, key, drawnKey, drawnIv)

(***************************************************************************)
(* The encryption layer as a state machine.  The functions keep no state;  *)
(* a run is one chain of calls: an encrypt_data or hash_encrypted call,    *)
(* then either a second encrypt_data call with the same key and data or a  *)
(* decrypt_data call on the envelope returned; or a decrypt_data call on   *)
(* an envelope that comes from elsewhere.                                  *)
(***************************************************************************)
\* [42u8; 32] and [7u8; 32], the keys of test_hash_encryption
GoodKeys == {Repeat(42, 32), Repeat(7, 32)}
BadKeys == {<<>>, Repeat(42, 31), Repeat(42, 33)}
AllKeys == GoodKeys \cup BadKeys
KeyOptions == {None} \cup {Some(k) : k \in AllKeys}

\* what thread_rng() may fill a 16-byte IV with
IVs == {Zeros(16), Repeat(255, 16), [i \in 1..16 |-> 16 * i - 1]}

CryptInputs == SeqsUpTo(ByteSample, MaxData)

CryptHashers ==
    {KawaiiHash_with_size(MaxSize), KawaiiHash_with_size(0),
     MagicalHash_new, TsundereHash_with_rounds(1)}

\* Envelopes handed to decrypt_data that encrypt_data did not produce:
\* canonical base64 of 0, 1, 15, 16, 17 and 18 bytes, and malformed text.
GivenEnvelopes ==
    LET iv == [i \in 1..16 |-> 16 * i - 1]
        ok == {BASE64_encode(SubSeq(iv, 1, n)) : n \in {0, 1, 15, 16}}
                \cup {BASE64_encode(iv \o d) : d \in {<<90>>, <<90, 255>>}}
        e16 == BASE64_encode(iv)
        e17 == BASE64_encode(iv \o <<90>>)
    IN  ok \cup { SubSeq(e16, 1, Len(e16) - 1),            \* a symbol short
                  [e16 EXCEPT ![5] = 33],                  \* "!", a foreign symbol
                  [e16 EXCEPT ![Len(e16) - 2] = 66],       \* non-zero trailing bits
                  [e17 EXCEPT ![2] = 61],                  \* padding inside
                  SubSeq(e17, 1, Len(e17) - 1) \o <<65>>,  \* one pad replaced by a symbol
                  <<255, 254, 253, 252>> }                 \* not text at all

InitCrypt ==
    /\ hasher \in CryptHashers
    /\ resets = 0
    /\ hres = NoCall
    /\ enc = NoCall /\ enc2 = NoCall /\ dec = NoCall
    /\ call = NoCall
    /\ cmp = CmpIdle

\* the record of an encrypt_data call: what it was given, what it drew
\* (nothing when it returned before drawing), what it returned
Encrypted(op, src, data, key, drawnKey, drawnIv, out) ==
    [op |-> op, src |-> src, data |-> data, key |-> key,
     used |-> IF out.tag = "Ok" THEN encrypt_key(key, drawnKey).val ELSE <<>>,
     iv |-> IF out.tag = "Ok" THEN drawnIv ELSE <<>>,
     out |-> out]

Decrypted(from, env, key, out) ==
    [op |-> "decrypt_data", from |-> from, env |-> env, key |-> key, out |-> out]

EncryptCall ==
    /\ enc.op = "none" /\ dec.op = "none"
    /\ \E data \in CryptInputs, key \in KeyOptions, drawnKey \in GoodKeys, drawnIv \in IVs :
         enc' = Encrypted("encrypt_data", data, data, key, drawnKey, drawnIv,
                          encrypt_data(data, key, drawnKey, drawnIv))
    /\ UNCHANGED <<hasher, resets, hres, enc2, dec, call, cmp>>

HashEncryptedCall ==
    /\ enc.op = "none" /\ dec.op = "none"
    /\ \E data \in HashInputs, key \in KeyOptions, drawnKey \in GoodKeys, drawnIv \in IVs :
         LET hash == NekoHash_hash(hasher, data)
         IN  enc' = Encrypted("hash_encrypted", data, hash.val, key, drawnKey, drawnIv,
                              NekoHash_hash_encrypted(hasher, data, key, drawnKey, drawnIv))
    /\ UNCHANGED <<hasher, resets, hres, enc2, dec, call, cmp>>

\* encrypt_data again, with the key and the data of the first call
EncryptAgainCall ==
    /\ enc.op = "encrypt_data" /\ enc.out.tag = "Ok" /\ enc.key.some
    /\ enc2.op = "none" /\ dec.op = "none"
    /\ \E drawnKey \in GoodKeys, drawnIv \in IVs :
         enc2' = Encrypted("encrypt_data", enc.data, enc.data, enc.key, drawnKey, drawnIv,
                           encrypt_data(enc.data, enc.key, drawnKey, drawnIv))
    /\ UNCHANGED <<hasher, resets, hres, enc, dec, call, cmp>>

\* decrypt_data on the envelope the first call returned
DecryptCall ==
    /\ enc.op # "none" /\ enc.out.tag = "Ok"
    /\ enc2.op = "none" /\ dec.op = "none"
    /\ \E key \in AllKeys :
         dec' = Decrypted("enc", enc.out.val, key, decrypt_data(enc.out.val, key))
    /\ UNCHANGED <<hasher, resets, hres, enc, enc2, call, cmp>>

\* decrypt_data on an envelope from elsewhere
DecryptGivenCall ==
    /\ enc.op = "none" /\ dec.op = "none"
    /\ \E env \in GivenEnvelopes, key \in AllKeys :
         dec' = Decrypted("given", env, key, decrypt_data(env, key))
    /\ UNCHANGED <<hasher, resets, hres, enc, enc2, call, cmp>>

NextCrypt ==
    \/ EncryptCall
    \/ HashEncryptedCall
    \/ EncryptAgainCall
    \/ DecryptCall
    \/ DecryptGivenCall

SpecCrypt == InitCrypt /\ [][NextCrypt]_vars

(***************************************************************************)
(* Claims about encrypt_data / decrypt_data.                               *)
(***************************************************************************)
\* decrypt_data was called on the envelope `enc` returned
DecryptedOwn == dec.op = "decrypt_data" /\ dec.from = "enc"

\* C3: decrypting an envelope with the key it was encrypted under returns
\* Ok(data), whichever IV was drawn; for hash_encrypted the data is the
\* hash of the input.
C3_RoundTrip ==
    (DecryptedOwn /\ enc.key.some /\ dec.key = enc.used) =>
        /\ dec.out = Ok(enc.data)
        /\ enc.op = "hash_encrypted" => dec.out = NekoHash_hash(hasher, enc.src)

\* C3 witness: a non-empty hash went through hash_encrypted and came back.
C3_Witness ==
    /\ DecryptedOwn /\ enc.key.some /\ dec.key = enc.used
    /\ enc.op = "hash_encrypted" /\ Len(enc.data) > 0
    /\ dec.out.tag = "Ok"

\* C4 as claimed: a second encrypt_data call with the same key and data
\* never draws the IV of the first, and returns a different envelope.
C4_NeverSameIv ==
    enc2.op # "none" => (enc2.iv # enc.iv /\ enc2.out # enc.out)

\* C4 as amended: the envelope carries the IV drawn in its first 16 decoded
\* bytes, and two calls with the same key and data return different
\* envelopes exactly when they drew different IVs.
C4_EnvelopesDifferIffIvsDiffer ==
    enc2.op # "none" =>
        /\ LET decoded == BASE64_decode(enc2.out.val).val
           IN  Len(decoded) >= 16 /\ SubSeq(decoded, 1, 16) = enc2.iv
        /\ (enc2.out = enc.out) <=> (enc2.iv = enc.iv)

\* C4 witness: two calls on the same key and data that drew different IVs.
C4_Witness ==
    /\ enc2.op # "none" /\ enc2.key = enc.key /\ enc2.data = enc.data
    /\ enc2.iv # enc.iv /\ enc2.out # enc.out

\* C5: a supplied key whose length is not 32 makes encrypt_data return
\* KeyError for every data, and makes decrypt_data return KeyError for every
\* envelope, malformed or short ones included.
C5_KeyCheckedFirst ==
    /\ (enc.op = "encrypt_data" /\ enc.key.some /\ Len(enc.key.key) # 32)
          => enc.out = Err("KeyError")
    /\ (enc2.op = "encrypt_data" /\ enc2.key.some /\ Len(enc2.key.key) # 32)
          => enc2.out = Err("KeyError")
    /\ (dec.op = "decrypt_data" /\ Len(dec.key) # 32) => dec.out = Err("KeyError")

\* C5 witness: decrypt_data got a bad key together with malformed base64.
C5_Witness ==
    /\ dec.op = "decrypt_data" /\ Len(dec.key) # 32
    /\ BASE64_decode(dec.env).tag # "Ok"

\* C6: with a 32-byte key, decrypt_data returns EncodingError for text that
\* is not canonical base64, CryptoError for base64 of fewer than 16 bytes,
\* and otherwise Ok of (decoded length - 16) bytes: the bytes after the
\* first 16 decrypted under the key with the first 16 as IV.
C6_DecryptOutcome ==
    (dec.op = "decrypt_data" /\ Len(dec.key) = 32) =>
        LET decoded == BASE64_decode(dec.env)
        IN  IF decoded.tag # "Ok" THEN dec.out = Err("EncodingError")
            ELSE IF Len(decoded.val) < 16 THEN dec.out = Err("CryptoError")
            ELSE /\ dec.out.tag = "Ok"
                 /\ Len(dec.out.val) = Len(decoded.val) - 16
                 /\ dec.out.val = apply_keystream(dec.key, SubSeq(decoded.val, 1, 16),
                                                  SubSeq(decoded.val, 17, Len(decoded.val)))

\* C6 witness: base64 of exactly 16 bytes decrypted to the empty plaintext.
C6_Witness ==
    /\ dec.op = "decrypt_data" /\ dec.from = "given" /\ Len(dec.key) = 32
    /\ Len(BASE64_decode(dec.env).val) = 16
    /\ dec.out = Ok(<<>>)

\* decrypt_data was called on enc's envelope with another 32-byte key
DecryptedWithWrongKey ==
    /\ DecryptedOwn /\ enc.op = "encrypt_data" /\ enc.key.some
    /\ Len(dec.key) = 32 /\ dec.key # enc.used

\* C7 as claimed: decrypting with another 32-byte key returns Ok with a
\* plaintext different from data.
C7_WrongKeyDiffers ==
    DecryptedWithWrongKey => (dec.out.tag = "Ok" /\ dec.out.val # enc.data)

\* C7 as amended: decrypting with another 32-byte key returns Ok, never an
\* error, with as many bytes as data: data XOR the two keystreams.  For the
\* empty buffer that is data itself.
C7_WrongKeyOkSameLength ==
    DecryptedWithWrongKey =>
        /\ dec.out.tag = "Ok"
        /\ Len(dec.out.val) = Len(enc.data)
        /\ dec.out.val = apply_keystream(dec.key, enc.iv,
                                         apply_keystream(enc.used, enc.iv, enc.data))
        /\ enc.data = <<>> => dec.out.val = enc.data

\* C7 witness: a non-empty buffer decrypted under the wrong key came out
\* different.
C7_Witness ==
    /\ DecryptedWithWrongKey /\ Len(enc.data) > 0
    /\ dec.out.tag = "Ok" /\ dec.out.val # enc.data

(***************************************************************************)
(* to_hex / from_hex (src/src/utils.rs).  A &str is the sequence of the    *)
(* bytes of its UTF-8 encoding; str::len and str slicing count bytes.      *)
(***************************************************************************)
\* the lowercase digit `{:x}` prints for a value below 16
LowerHexDigit(n) == IF n < 10 THEN 48 + n ELSE 97 + (n - 10)

\* format!("{:x}", byte): no leading zero
FormatByteUnpadded(byte) ==
    IF byte < 16 THEN <<LowerHexDigit(byte)>>
    ELSE <<LowerHexDigit(byte \div 16), LowerHexDigit(byte % 16)>>

\* format!("{:02x}", byte)
FormatByte(byte) == <<LowerHexDigit(byte \div 16), LowerHexDigit(byte % 16)>>

RECURSIVE to_hex(_)
to_hex(bytes) ==
    IF Len(bytes) = 0 THEN <<>>
    ELSE FormatByte(bytes[1]) \o to_hex(SubSeq(bytes, 2, Len(bytes)))

\* char::to_digit(16): the value of a hex digit, -1 for any other byte
ToDigit16(c) ==
    IF c >= 48 /\ c <= 57 THEN c - 48
    ELSE IF c >= 97 /\ c <= 102 THEN c - 97 + 10
    ELSE IF c >= 65 /\ c <= 70 THEN c - 65 + 10
    ELSE -1

RECURSIVE DigitsValue(_, _)
\* the digits accumulated most significant first; -1 when one is no digit
DigitsValue(digits, acc) ==
    IF Len(digits) = 0 THEN acc
    ELSE LET d == ToDigit16(digits[1])
         IN  IF d < 0 THEN -1
             ELSE DigitsValue(SubSeq(digits, 2, Len(digits)), 16 * acc + d)

\* u8::from_str_radix(src, 16) on a slice of at most two bytes: an empty
\* string and a lone sign are errors, one leading "+" is skipped ("-" is
\* not a sign for an unsigned type), every other byte must be a digit.
u8_from_str_radix16(src) ==
    IF Len(src) = 0 THEN Err("ParseIntError")
    ELSE IF Len(src) = 1 /\ src[1] \in {43, 45} THEN Err("ParseIntError")
    ELSE LET digits == IF src[1] = 43 THEN SubSeq(src, 2, Len(src)) ELSE src
             value  == DigitsValue(digits, 0)
         IN  IF value < 0 THEN Err("ParseIntError") ELSE Ok(<<value>>)

\* str::is_char_boundary(idx), idx counted from 0: the ends of the string,
\* and every byte that is not a UTF-8 continuation byte (0x80..0xBF)
is_char_boundary(s, idx) ==
    \/ idx = 0
    \/ idx = Len(s)
    \/ idx < Len(s) /\ (s[idx + 1] < 128 \/ s[idx + 1] >= 192)

RECURSIVE FromHexLoop(_, _, _)
\* for i in (0..hex.len()).step_by(2), from byte offset i (0-based) on;
\* &hex[i..i + 2] panics when an end of the slice is inside a character
FromHexLoop(hex, i, bytes) ==
    IF i >= Len(hex) THEN Ok(bytes)
    ELSE IF ~(is_char_boundary(hex, i) /\ is_char_boundary(hex, i + 2)) THEN Panic
    ELSE LET byte == u8_from_str_radix16(SubSeq(hex, i + 1, i + 2))
         IN  IF byte.tag # "Ok" THEN Err("EncodingError")
             ELSE FromHexLoop(hex, i + 2, bytes \o byte.val)

from_hex(hex) ==
    IF Len(hex) % 2 # 0 THEN Err("EncodingError")
    ELSE FromHexLoop(hex, 0, <<>>)

(***************************************************************************)
(* The hex codec as a state machine: to_hex on a buffer, then from_hex on  *)
(* the string returned; or from_hex on a string from elsewhere.            *)
(***************************************************************************)
HexByteSample == {0, 10, 171, 222, 255}
HexInputs == SeqsUpTo(HexByteSample, MaxHexBytes)

\* "0" "9" "a" "f" "F" "g" "+" "-" and the two-byte "e acute"
StrChars == {<<48>>, <<57>>, <<97>>, <<102>>, <<70>>, <<103>>, <<43>>, <<45>>, <<195, 169>>}

RECURSIVE StringsUpTo(_)
\* all strings of at most n characters over StrChars
StringsUpTo(n) ==
    IF n = 0 THEN {<<>>}
    ELSE {<<>>} \cup {c \o s : c \in StrChars, s \in StringsUpTo(n - 1)}

StrInputs == StringsUpTo(MaxStrChars)

InitHex ==
    /\ hasher = NoHasher
    /\ resets = 0
    /\ hres = NoCall
    /\ enc = NoCall /\ enc2 = NoCall /\ dec = NoCall
    /\ call = NoCall
    /\ cmp = CmpIdle

\* the record of a codec call: `of` is the buffer whose to_hex the argument
\* is, when `chained`
Called(op, arg, chained, of, out) ==
    [op |-> op, arg |-> arg, chained |-> chained, of |-> of, out |-> out]

ToHexCall ==
    /\ call.op = "none"
    /\ \E bytes \in HexInputs :
         call' = Called("to_hex", bytes, FALSE, <<>>, Ok(to_hex(bytes)))
    /\ UNCHANGED <<hasher, resets, hres, enc, enc2, dec, cmp>>

\* from_hex(&to_hex(b))
FromHexOfToHexCall ==
    /\ call.op = "to_hex"
    /\ call' = Called("from_hex", call.out.val, TRUE, call.arg, from_hex(call.out.val))
    /\ UNCHANGED <<hasher, resets, hres, enc, enc2, dec, cmp>>

FromHexCall ==
    /\ call.op = "none"
    /\ \E hex \in StrInputs :
         call' = Called("from_hex", hex, FALSE, <<>>, from_hex(hex))
    /\ UNCHANGED <<hasher, resets, hres, enc, enc2, dec, cmp>>

NextHex ==
    \/ ToHexCall
    \/ FromHexOfToHexCall
    \/ FromHexCall

SpecHex == InitHex /\ [][NextHex]_vars

(***************************************************************************)
(* Claims about the hex codec.                                             *)
(***************************************************************************)
IsLowerHexDigit(c) == (c >= 48 /\ c <= 57) \/ (c >= 97 /\ c <= 102)
IsHexDigit(c) == IsLowerHexDigit(c) \/ (c >= 65 /\ c <= 70)

\* C8: to_hex(b) is exactly 2 * len(b) lowercase hex digits, and
\* from_hex(to_hex(b)) returns Ok(b).
C8_HexRoundTrip ==
    /\ call.op = "to_hex" =>
          /\ Len(call.out.val) = 2 * Len(call.arg)
          /\ \A i \in 1..Len(call.out.val) : IsLowerHexDigit(call.out.val[i])
    /\ (call.op = "from_hex" /\ call.chained) => call.out = Ok(call.of)

\* C8 witness: a buffer with a byte below 16 came back from the round trip.
C8_Witness ==
    /\ call.op = "from_hex" /\ call.chained
    /\ Len(call.of) = 2 /\ call.of[1] = 10
    /\ call.out.tag = "Ok"

\* C9: from_hex returns EncodingError for every string of odd length or
\* with a character that is not a hex digit, Ok only for even-length
\* strings of hex digits, and always returns.
C9_FromHexRejectsNonHex ==
    call.op = "from_hex" =>
        IF Len(call.arg) % 2 = 0 /\ \A i \in 1..Len(call.arg) : IsHexDigit(call.arg[i])
        THEN call.out.tag = "Ok"
        ELSE call.out = Err("EncodingError")

(***************************************************************************)
(* constant_time_compare (src/src/utils.rs), one step per loop iteration.  *)
(* cmp.i counts the byte pairs the loop has examined.                      *)
(***************************************************************************)
CmpInputs == SeqsUpTo(ByteSample, MaxCmpLen)

InitCmp ==
    /\ hasher = NoHasher
    /\ resets = 0
    /\ hres = NoCall
    /\ enc = NoCall /\ enc2 = NoCall /\ dec = NoCall
    /\ call = NoCall
    /\ cmp = CmpIdle

\* entry: `if a.len() != b.len() { return false; }`, then `let mut result = 0u8`
CmpCall ==
    /\ cmp.pc = "idle"
    /\ \E a \in CmpInputs, b \in CmpInputs :
         cmp' = IF Len(a) # Len(b)
                THEN [pc |-> "done", a |-> a, b |-> b, i |-> 0, result |-> 0, ret |-> FALSE]
                ELSE [pc |-> "loop", a |-> a, b |-> b, i |-> 0, result |-> 0, ret |-> FALSE]
    /\ UNCHANGED <<hasher, resets, hres, enc, enc2, dec, call>>

\* A loop body that returns at the first pair that differs.
CmpStep_EarlyExit ==
    /\ cmp.pc = "loop" /\ cmp.i < Len(cmp.a)
    /\ cmp' = IF cmp.a[cmp.i + 1] # cmp.b[cmp.i + 1]
              THEN [cmp EXCEPT !.pc = "done", !.i = @ + 1, !.ret = FALSE]
              ELSE [cmp EXCEPT !.i = @ + 1]
    /\ UNCHANGED <<hasher, resets, hres, enc, enc2, dec, call>>

\* one iteration of `for (x, y) in a.iter().zip(b.iter()) { result |= x ^ y; }`
CmpStep ==
    /\ cmp.pc = "loop" /\ cmp.i < Len(cmp.a)
    /\ cmp' = [cmp EXCEPT !.i = @ + 1,
                          !.result = Or8(@, Xor8(cmp.a[cmp.i + 1], cmp.b[cmp.i + 1]))]
    /\ UNCHANGED <<hasher, resets, hres, enc, enc2, dec, call>>

\* the zip is exhausted: `result == 0`
CmpReturn ==
    /\ cmp.pc = "loop" /\ cmp.i = Len(cmp.a)
    /\ cmp' = [cmp EXCEPT !.pc = "done", !.ret = (cmp.result = 0)]
    /\ UNCHANGED <<hasher, resets, hres, enc, enc2, dec, call>>

NextCmp ==
    \/ CmpCall
    \/ CmpStep
    \/ CmpReturn

SpecCmp == InitCmp /\ [][NextCmp]_vars

\* C10: constant_time_compare(a, b) is true exactly when a and b have the
\* same length and the same byte at every position, and for equal lengths
\* it returns only after the loop has examined every byte pair.
C10_CompareIsEquality ==
    cmp.pc = "done" =>
        /\ cmp.ret <=> (cmp.a = cmp.b)
        /\ Len(cmp.a) = Len(cmp.b) => cmp.i = Len(cmp.a)

\* C10 witness: two buffers that differ in their first byte only were
\* compared to the end and found different.
C10_Witness ==
    /\ cmp.pc = "done" /\ Len(cmp.a) = 2 /\ Len(cmp.b) = 2
    /\ cmp.a[1] # cmp.b[1] /\ cmp.a[2] = cmp.b[2]
    /\ cmp.i = 2 /\ ~cmp.ret

(***************************************************************************)
(* rotate_key (src/src/utils.rs).                                          *)
(***************************************************************************)
MaxKeyLen == 3     \* longest key handed to rotate_key
MaxBits == 25      \* largest `bits` handed to rotate_key

\* <[u8]>::rotate_left(mid): the element at index mid comes first
SliceRotateLeft(s, mid) == [i \in 1..Len(s) |-> s[((i - 1 + mid) % Len(s)) + 1]]

\* u8 << n and u8 >> n for 0 < n < 8
Shl8(x, n) == (x * (2 ^ n)) % 256
Shr8(x, n) == x \div (2 ^ n)

RECURSIVE RotateCarryLoop(_, _, _, _)
\* for byte in result.iter_mut() { new_carry = *byte >> (8 - r);
\*   *byte = (*byte << r) | carry; carry = new_carry; }
\* from index i (1-based) on; gives the buffer and the carry left over
RotateCarryLoop(result, r, carry, i) ==
    IF i > Len(result) THEN [buf |-> result, carry |-> carry]
    ELSE LET new_carry == Shr8(result[i], 8 - r)
             shifted   == Or8(Shl8(result[i], r), carry)
         IN  RotateCarryLoop([result EXCEPT ![i] = shifted], r, new_carry, i + 1)

\* rotate_key(key, bits).  `bits as usize % total_bits` panics when the key
\* is empty (total_bits is 0).
rotate_key(key, bits) ==
    IF Len(key) = 0 THEN Panic
    ELSE LET total_bits      == Len(key) * 8
             rotation        == bits % total_bits
             bytes_to_rotate == rotation \div 8
             remaining_bits  == rotation % 8
             moved   == IF bytes_to_rotate > 0 THEN SliceRotateLeft(key, bytes_to_rotate)
                        ELSE key
             looped  == RotateCarryLoop(moved, remaining_bits, 0, 1)
         IN  IF rotation = 0 THEN Ok(key)
             ELSE IF remaining_bits > 0
                  THEN Ok([looped.buf EXCEPT ![1] = Or8(@, looped.carry)])
                  ELSE Ok(moved)

RotKeys == SeqsUpTo({0, 1, 128, 170, 240}, MaxKeyLen)

\* before a call of one of the key and hash utilities
InitUtils ==
    /\ hasher = NoHasher
    /\ resets = 0
    /\ hres = NoCall
    /\ enc = NoCall /\ enc2 = NoCall /\ dec = NoCall
    /\ call = NoCall
    /\ cmp = CmpIdle

RotateKeyCall ==
    /\ call.op = "none"
    /\ \E key \in RotKeys, bits \in 0..MaxBits :
         call' = [op |-> "rotate_key", key |-> key, bits |-> bits,
                  out |-> rotate_key(key, bits)]
    /\ UNCHANGED <<hasher, resets, hres, enc, enc2, dec, cmp>>

SpecRotate == InitUtils /\ [][RotateKeyCall]_vars

\* bit j (0-based) of the buffer read as one bit string, byte 0 first and
\* the most significant bit of each byte first
BitAt(buf, j) == BitOf(buf[(j \div 8) + 1], 7 - (j % 8))

\* the cyclic left rotation of that bit string by n positions
BitStringRotateLeft(buf, n) ==
    LET total == 8 * Len(buf)
        bit(j) == BitAt(buf, (j + n) % total)
    IN  [i \in 1..Len(buf) |->
           bit(8 * (i - 1)) * 128 + bit(8 * (i - 1) + 1) * 64
           + bit(8 * (i - 1) + 2) * 32 + bit(8 * (i - 1) + 3) * 16
           + bit(8 * (i - 1) + 4) * 8 + bit(8 * (i - 1) + 5) * 4
           + bit(8 * (i - 1) + 6) * 2 + bit(8 * (i - 1) + 7)]

\* C11: for every key of at least one byte, rotate_key(key, bits) is the
\* cyclic left rotation of the whole buffer, read as one bit string, by
\* bits mod 8*len(key) positions (the key itself when that is 0).
C11_RotateIsBitRotation ==
    (call.op = "rotate_key" /\ Len(call.key) >= 1) =>
        call.out = Ok(BitStringRotateLeft(call.key, call.bits % (8 * Len(call.key))))

(***************************************************************************)
(* stretch_key and derive_key (src/src/utils.rs).                          *)
(***************************************************************************)
RECURSIVE StretchLoop(_, _, _)
\* for _ in 0..n { result = hasher.hash(&result); }: the first half of the
\* iterations and then the rest.  hasher.size > 0, so hash() returns.
StretchLoop(hasher_, result, n) ==
    IF n = 0 \/ Len(result) < 0 THEN result
    ELSE IF n = 1 THEN KawaiiHash_hash(hasher_, result).val
    ELSE StretchLoop(hasher_, StretchLoop(hasher_, result, n \div 2), n - (n \div 2))

\* stretch_key(data, iterations, output_size)
stretch_key(data, iterations, output_size) ==
    IF iterations = 0 THEN Err("InvalidInput")
    ELSE IF output_size = 0 THEN Err("InvalidInput")
    ELSE Ok(StretchLoop(KawaiiHash_with_size(output_size), data, iterations))

MaxIterations == 3   \* largest iteration count handed to stretch_key

StretchInputs == SeqsUpTo(ByteSample, MaxData) \cup {HelloWorld}

\* The activation of stretch_key(data, iterations, output_size) after its
\* two checks: either it has returned InvalidInput, or it stands before the
\* loop with result = data.to_vec() and hasher = KawaiiHash::with_size(..).
\* `caller` holds the arguments of the function that made the call, or
\* [fn |-> "none"] for a call from outside the crate.
StretchEntered(caller, data, iterations, output_size) ==
    IF iterations = 0 \/ output_size = 0
    THEN [op |-> "stretch_key", caller |-> caller, pc |-> "done", data |-> data,
          iterations |-> iterations, output_size |-> output_size,
          hasher |-> NoHasher, i |-> 0, result |-> <<>>,
          out |-> Err("InvalidInput")]
    ELSE [op |-> "stretch_key", caller |-> caller, pc |-> "loop", data |-> data,
          iterations |-> iterations, output_size |-> output_size,
          hasher |-> KawaiiHash_with_size(output_size), i |-> 0, result |-> data,
          out |-> Ok(<<>>)]

StretchKeyCall ==
    /\ call.op = "none"
    /\ \E data \in StretchInputs, iterations \in 0..MaxIterations,
          output_size \in 0..MaxSize :
         call' = StretchEntered([fn |-> "none"], data, iterations, output_size)
    /\ UNCHANGED <<hasher, resets, hres, enc, enc2, dec, cmp>>

\* An iteration that hashes the original data again instead of its own
\* output.
StretchStep_FromData ==
    /\ call.op = "stretch_key" /\ call.pc = "loop" /\ call.i < call.iterations
    /\ call' = [call EXCEPT !.i = @ + 1,
                            !.result = KawaiiHash_hash(call.hasher, call.data).val]
    /\ UNCHANGED <<hasher, resets, hres, enc, enc2, dec, cmp>>

\* one iteration of `for _ in 0..iterations { result = hasher.hash(&result); }`
StretchStep ==
    /\ call.op = "stretch_key" /\ call.pc = "loop" /\ call.i < call.iterations
    /\ call' = [call EXCEPT !.i = @ + 1,
                            !.result = KawaiiHash_hash(call.hasher, call.result).val]
    /\ UNCHANGED <<hasher, resets, hres, enc, enc2, dec, cmp>>

\* the range is exhausted: Ok(result)
StretchReturn ==
    /\ call.op = "stretch_key" /\ call.pc = "loop" /\ call.i = call.iterations
    /\ call' = [call EXCEPT !.pc = "done", !.out = Ok(call.result)]
    /\ UNCHANGED <<hasher, resets, hres, enc, enc2, dec, cmp>>

NextStretch ==
    \/ StretchKeyCall
    \/ StretchStep
    \/ StretchReturn

SpecStretch == InitUtils /\ [][NextStretch]_vars

\* Construction A with the given output size and the default seed, applied
\* to one buffer
HashA(size, data) == KawaiiHash_hash(KawaiiHash_with_size(size), data).val

\* C12: stretch_key returns InvalidInput when iterations or output_size is
\* 0, for every data; otherwise it returns Ok of exactly output_size bytes,
\* the chain of Construction A (that output size, default seed) started from
\* data: one application for one iteration, and for n+1 iterations the hash
\* of what n iterations return.
C12_StretchIsHashChain ==
    (call.op = "stretch_key" /\ call.pc = "done" /\ call.caller.fn = "none") =>
        IF call.iterations = 0 \/ call.output_size = 0
        THEN call.out = Err("InvalidInput")
        ELSE /\ call.out.tag = "Ok"
             /\ Len(call.out.val) = call.output_size
             /\ call.out = stretch_key(call.data, call.iterations, call.output_size)
             /\ call.out.val =
                  HashA(call.output_size,
                        IF call.iterations = 1 THEN call.data
                        ELSE stretch_key(call.data, call.iterations - 1,
                                         call.output_size).val)

\* C12 witness: a call with more than one iteration returned a buffer whose
\* length differs from the input's.
C12_Witness ==
    /\ call.op = "stretch_key" /\ call.pc = "done" /\ call.caller.fn = "none"
    /\ call.iterations > 1 /\ call.output_size > 0
    /\ Len(call.data) > call.output_size
    /\ call.out.tag = "Ok" /\ call.out.val # HashA(call.output_size, call.data)

\* b"password123" (test_key_derivation) and b"pw"
Password123 == <<112, 97, 115, 115, 119, 111, 114, 100, 49, 50, 51>>
Passwords == {<<>>, <<112, 119>>, Password123}
\* a salt is what generate_salt() returned (16 bytes) or any other buffer
Salts == {<<>>, Repeat(90, 16)}

\* derive_key returning from one of its own checks
DeriveRejected(password, salt) ==
    [op |-> "derive_key",
     caller |-> [fn |-> "derive_key", password |-> password, salt |-> salt],
     pc |-> "done", out |-> Err("InvalidInput")]

\* A derive_key that puts the salt before the password.
DeriveKeyCall_SaltFirst ==
    /\ call.op = "none"
    /\ \E password \in Passwords, salt \in Salts :
         call' = IF password = <<>> \/ salt = <<>> THEN DeriveRejected(password, salt)
                 ELSE StretchEntered([fn |-> "derive_key", password |-> password,
                                      salt |-> salt],
                                     salt \o password, 10000, 32)
    /\ UNCHANGED <<hasher, resets, hres, enc, enc2, dec, cmp>>

\* derive_key(password, salt): the two checks, the concatenation, and the
\* call stretch_key(&input, 10000, 32), whose return value it returns
DeriveKeyCall ==
    /\ call.op = "none"
    /\ \E password \in Passwords, salt \in Salts :
         call' = IF password = <<>> THEN DeriveRejected(password, salt)
                 ELSE IF salt = <<>> THEN DeriveRejected(password, salt)
                 ELSE StretchEntered([fn |-> "derive_key", password |-> password,
                                      salt |-> salt],
                                     password \o salt, 10000, 32)
    /\ UNCHANGED <<hasher, resets, hres, enc, enc2, dec, cmp>>

NextDerive ==
    \/ DeriveKeyCall
    \/ StretchStep
    \/ StretchReturn

SpecDerive == InitUtils /\ [][NextDerive]_vars

\* a derive_key call has returned
DeriveReturned == call.op # "none" /\ call.pc = "done" /\ call.caller.fn = "derive_key"

\* C13: derive_key returns InvalidInput when password or salt is empty; for
\* non-empty password and salt it returns exactly 32 bytes, the value of
\* stretch_key(password || salt, 10000, 32), which is fixed by password and
\* salt alone (so two calls with the same arguments return the same key).
C13_DeriveIsStretch ==
    DeriveReturned =>
        IF call.caller.password = <<>> \/ call.caller.salt = <<>>
        THEN call.out = Err("InvalidInput")
        ELSE /\ call.out.tag = "Ok"
             /\ Len(call.out.val) = 32
             /\ call.out = stretch_key(call.caller.password \o call.caller.salt, 10000, 32)

\* C13 witness: a call with non-empty password and salt returned its key.
C13_Witness ==
    /\ DeriveReturned
    /\ call.caller.password # <<>> /\ call.caller.salt # <<>>
    /\ call.out.tag = "Ok" /\ call.i = 10000

(***************************************************************************)
(* combine_hashes (src/src/utils.rs).                                      *)
(***************************************************************************)
MaxHashes == 2     \* longest list handed to combine_hashes
MaxHashLen == 2    \* longest buffer in such a list

RECURSIVE MaxLen(_, _)
\* hashes.iter().map(|h| h.len()).max(), from the (k)th buffer on
MaxLen(hashes, k) ==
    IF k > Len(hashes) THEN 0
    ELSE LET rest == MaxLen(hashes, k + 1)
         IN  IF Len(hashes[k]) > rest THEN Len(hashes[k]) ELSE rest

\* A loop body that rotates the byte before the XOR.
CombineByte_RotateFirst(result, idx, byte) ==
    [result EXCEPT ![idx] = Xor8(RotateLeft8(@, 3), byte)]

\* result[idx] ^= byte; result[idx] = result[idx].rotate_left(3);
CombineByte(result, idx, byte) ==
    [result EXCEPT ![idx] = RotateLeft8(Xor8(@, byte), 3)]

RECURSIVE CombineOne(_, _, _, _)
\* for (i, &byte) in hash.iter().enumerate(), from the (i)th byte on
\* (1-based); `i % max_len` is only evaluated when hash has a byte, and then
\* max_len > 0
CombineOne(result, hash, max_len, i) ==
    IF i > Len(hash) THEN result
    ELSE CombineOne(CombineByte(result, ((i - 1) % max_len) + 1, hash[i]),
                    hash, max_len, i + 1)

RECURSIVE CombineAll(_, _, _, _)
\* for hash in hashes, from the (k)th buffer on
CombineAll(result, hashes, max_len, k) ==
    IF k > Len(hashes) THEN result
    ELSE CombineAll(CombineOne(result, hashes[k], max_len, 1), hashes, max_len, k + 1)

\* combine_hashes(hashes)
combine_hashes(hashes) ==
    IF Len(hashes) = 0 THEN <<>>
    ELSE LET max_len == MaxLen(hashes, 1)
         IN  CombineAll(Zeros(max_len), hashes, max_len, 1)

CombineInputs == SeqsUpTo(SeqsUpTo(ByteSample, MaxHashLen), MaxHashes)

CombineCall ==
    /\ call.op = "none"
    /\ \E hashes \in CombineInputs :
         call' = [op |-> "combine_hashes", hashes |-> hashes,
                  out |-> Ok(combine_hashes(hashes))]
    /\ UNCHANGED <<hasher, resets, hres, enc, enc2, dec, cmp>>

\* the same list handed to combine_hashes once more
CombineAgainCall ==
    /\ call.op = "combine_hashes"
    /\ call' = [op |-> "combine_hashes_again", hashes |-> call.hashes,
                first |-> call.out, out |-> Ok(combine_hashes(call.hashes))]
    /\ UNCHANGED <<hasher, resets, hres, enc, enc2, dec, cmp>>

NextCombine ==
    \/ CombineCall
    \/ CombineAgainCall

SpecCombine == InitUtils /\ [][NextCombine]_vars

RECURSIVE ColumnFold(_, _, _, _)
\* byte j of the result after the buffers k.. of the list, given the byte
\* acc before them: each buffer that has a byte j XORs it in and the byte is
\* then rotated left by 3
ColumnFold(acc, hashes, j, k) ==
    IF k > Len(hashes) THEN acc
    ELSE ColumnFold(IF j <= Len(hashes[k]) THEN RotateLeft8(Xor8(acc, hashes[k][j]), 3)
                    ELSE acc,
                    hashes, j, k + 1)

\* C14: combine_hashes returns a buffer whose length is the maximum input
\* length (empty for the empty list and for a list of empty buffers), each
\* byte of which is the list-order fold "XOR the buffer's byte in, rotate
\* left by 3" over result[i mod max_len]; the same list gives the same
\* result again.
C14_CombineIsRotatingXor ==
    call.op \in {"combine_hashes", "combine_hashes_again"} =>
        LET hashes == call.hashes
            lens   == {Len(hashes[k]) : k \in 1..Len(hashes)}
            longest == IF lens = {} THEN 0 ELSE CHOOSE n \in lens : \A m \in lens : m <= n
        IN  /\ call.out.tag = "Ok"
            /\ Len(call.out.val) = longest
            /\ \A j \in 1..longest : call.out.val[j] = ColumnFold(0, hashes, j, 1)
            /\ call.op = "combine_hashes_again" => call.out = call.first

\* C14 witness: two buffers of different lengths were combined, twice, into
\* a buffer that is neither of them.
C14_Witness ==
    /\ call.op = "combine_hashes_again"
    /\ Len(call.hashes) = 2
    /\ Len(call.hashes[1]) < Len(call.hashes[2])
    /\ Len(call.hashes[1]) > 0
    /\ call.out.val # call.hashes[1] /\ call.out.val # call.hashes[2]

(***************************************************************************)
(* Construction A as the specification words it: a 64-bit accumulator.     *)
(* 64-bit values are 8-byte little-endian sequences; a shorter sequence    *)
(* stands for the value modulo 256^n.                                      *)
(***************************************************************************)
RECURSIVE AddLE(_, _, _, _)
\* a + b modulo 256^n, from limb i on with the carry so far
AddLE(a, b, i, carry) ==
    IF i > Len(a) THEN <<>>
    ELSE LET s == a[i] + b[i] + carry
         IN  <<s % 256>> \o AddLE(a, b, i + 1, s \div 256)

\* a - b modulo 256^n: a + (the complement of b) + 1
SubLE(a, b) == AddLE(a, [i \in 1..Len(b) |-> 255 - b[i]], 1, 1)

RECURSIVE MulLE(_, _, _, _)
\* a * b modulo 256^n: the column sums of the limb products, carried upward
MulLE(a, b, k, carry) ==
    IF k > Len(a) THEN <<>>
    ELSE LET RECURSIVE col(_)
             col(i) == IF i > k THEN 0 ELSE a[i] * b[k + 1 - i] + col(i + 1)
             s == col(1) + carry
         IN  <<s % 256>> \o MulLE(a, b, k + 1, s \div 256)

\* u64 >> 32
Shr64By32(x) == <<x[5], x[6], x[7], x[8], 0, 0, 0, 0>>

\* u64::rotate_left(13): bit j of the result is bit j - 13 (mod 64) of x
RotateLeft64By13(x) ==
    LET bit(j) == LET src == (j + 51) % 64
                  IN  BitOf(x[(src \div 8) + 1], src % 8)
    IN  [i \in 1..8 |->
           bit(8 * (i - 1)) + 2 * bit(8 * (i - 1) + 1) + 4 * bit(8 * (i - 1) + 2)
           + 8 * bit(8 * (i - 1) + 3) + 16 * bit(8 * (i - 1) + 4)
           + 32 * bit(8 * (i - 1) + 5) + 64 * bit(8 * (i - 1) + 6)
           + 128 * bit(8 * (i - 1) + 7)]

\* 0x6c508bbb9c09c9df
AccMultiplier == <<223, 201, 9, 156, 187, 139, 80, 108>>

\* the (k)th 8-byte little-endian chunk of the input (k from 0), the last
\* one zero-padded
AccChunk(data, k) ==
    [i \in 1..8 |-> IF 8 * k + i <= Len(data) THEN data[8 * k + i] ELSE 0]

RECURSIVE AccAbsorb(_, _, _)
\* acc = rotate_left(acc + v, 13) XOR v for the chunks k.. of the input
AccAbsorb(acc, data, k) ==
    IF 8 * k >= Len(data) THEN acc
    ELSE LET v == AccChunk(data, k)
         IN  AccAbsorb(XorSeq(RotateLeft64By13(AddLE(acc, v, 1, 0)), v), data, k + 1)

\* acc = acc * 0x6c508bbb9c09c9df; acc ^= acc >> 32
AccMix(acc) ==
    LET m == MulLE(acc, AccMultiplier, 1, 0)
    IN  XorSeq(m, Shr64By32(m))

\* In the accumulator algorithm the first min(size, 8) output bytes are the
\* low bytes of AccMix(accumulator after the input) + r, where r is the
\* first value of the seeded generator.  r is fixed by the seed alone, so it
\* is what the same instance's hash of the empty input leaves when AccMix(seed)
\* is subtracted from it.
AccFirstDraw(self, n) ==
    SubLE(SubSeq(KawaiiHash_hash(self, <<>>).val, 1, n), SubSeq(AccMix(self.seed), 1, n))

\* C15: KawaiiHash computes the accumulator algorithm.  Whatever values the
\* seeded generator yields, that algorithm makes the low min(size, 8) bytes
\* of (output - AccMix(accumulator after the input)) the generator's first
\* value, the same for every input.
C15_KawaiiIsAccumulator ==
    (hres.op = "hash" /\ hasher.kind = "Kawaii" /\ hasher.size >= 1) =>
        LET n   == IF hasher.size < 8 THEN hasher.size ELSE 8
            acc == AccAbsorb(hasher.seed, hres.data, 0)
        IN  /\ hres.out.tag = "Ok"
            /\ SubLE(SubSeq(hres.out.val, 1, n), SubSeq(AccMix(acc), 1, n))
                 = AccFirstDraw(hasher, n)

(***************************************************************************)
(* What KawaiiHash and TsundereHash read of their input.                   *)
(***************************************************************************)
\* the number of bytes hash() folds the input into
FoldWidth(self) == IF self.kind = "Kawaii" THEN self.size ELSE 32

RECURSIVE XorOfColumn(_, _, _, _, _)
\* the XOR of data[j + k*s] for k in lo..hi (1-based j), halving the range
XorOfColumn(data, s, j, lo, hi) ==
    IF lo > hi THEN 0
    ELSE IF lo = hi THEN data[j + lo * s]
    ELSE LET mid == (lo + hi) \div 2
         IN  Xor8(XorOfColumn(data, s, j, lo, mid), XorOfColumn(data, s, j, mid + 1, hi))

\* the XOR-fold of data into s bytes: byte j (1-based) is the XOR of all
\* data[i] with (i - 1) mod s = j - 1
XorFold(data, s) ==
    [j \in 1..s |->
       IF j > Len(data) THEN 0 ELSE XorOfColumn(data, s, j, 0, (Len(data) - j) \div s)]

\* data with the bytes at positions i and j exchanged
SwapBytes(data, i, j) == [data EXCEPT ![i] = data[j], ![j] = data[i]]

\* C16: for KawaiiHash with size s >= 1 and for TsundereHash (s = 32),
\* hash(data) depends on data only through its XOR-fold into s bytes: it is
\* the hash of the fold, and appending a zero byte or exchanging the bytes
\* at positions i and i + s does not change it.
C16_HashReadsOnlyXorFold ==
    (/\ hres.op = "hash"
     /\ hasher.kind \in {"Kawaii", "Tsundere"}
     /\ FoldWidth(hasher) >= 1) =>
        LET s    == FoldWidth(hasher)
            data == hres.data
        IN  /\ hres.out.tag = "Ok"
            /\ hres.out = NekoHash_hash(hasher, XorFold(data, s))
            /\ hres.out = NekoHash_hash(hasher, data \o <<0>>)
            /\ \A i \in 1..(Len(data) - s) :
                 hres.out = NekoHash_hash(hasher, SwapBytes(data, i, i + s))

\* C16 witness: a TsundereHash with at least one round hashed an input
\* longer than 32 bytes whose bytes 0 and 32 differ, and a KawaiiHash would
\* be covered likewise by its own inputs.
C16_Witness ==
    /\ hres.op = "hash" /\ hres.out.tag = "Ok"
    /\ hasher.kind = "Tsundere" /\ hasher.rounds >= 1
    /\ Len(hres.data) > 32
    /\ hres.data[1] # hres.data[33]
    /\ XorFold(hres.data, 32) # SubSeq(hres.data, 1, 32)

=============================================================================
